---- MODULE Spec2Model ----
(***************************************************************************)
(* Model of the rysk-dashboard pricing path:                               *)
(*   - src/api/index.js : normalCDF, blackScholesCall, getContractSize and *)
(*     the GET /api/theoretical_apr handler;                               *)
(*   - src/src/App.tsx  : fetchQuotesWithTheoreticalAPR.                   *)
(*                                                                         *)
(* JavaScript numbers are modelled as tagged values: a finite number is a  *)
(* decimal fixed-point integer (Scale units per 1.0), and NaN, +Infinity   *)
(* and -Infinity are kept as values of their own with the IEEE-754 rules   *)
(* of every operator the code uses.  Negative zero is identified with      *)
(* zero.  Finite arithmetic is rounded to the nearest fixed-point unit.    *)
(***************************************************************************)
EXTENDS Integers, Sequences, FiniteSets, TLC

\* ------------------------------------------------------------------------
\* Fixed-point representation of finite numbers
\* ------------------------------------------------------------------------
Base == 10 * 10 * 10
Scale == Base * Base

AbsI(n) == IF n < 0 THEN -n ELSE n
SgnI(n) == IF n < 0 THEN -1 ELSE IF n = 0 THEN 0 ELSE 1

\* (a * b) / Scale for a, b >= 0, rounded to nearest, computed limb by limb
\* (limbs of Base) so that no intermediate product leaves the integer range.
MulMag(a, b) ==
  LET a1 == a \div Base
      a0 == a % Base
      b1 == b \div Base
      b0 == b % Base
      mid == a1 * b0 + a0 * b1
      low == (mid % Base) * Base + a0 * b0
  IN a1 * b1 + mid \div Base + (low + Scale \div 2) \div Scale

MulFix(a, b) == SgnI(a) * SgnI(b) * MulMag(AbsI(a), AbsI(b))

RECURSIVE Pow10(_)
Pow10(d) == IF d = 0 THEN 1 ELSE 10 * Pow10(d - 1)

\* Long division: the d decimal digits of r / b (0 <= r < b) after the point,
\* the last one rounded to nearest.
RECURSIVE FracDigits(_, _, _)
FracDigits(r, b, d) ==
  IF d = 0 THEN (IF 2 * r >= b THEN 1 ELSE 0)
  ELSE LET r10 == r * 10
       IN (r10 \div b) * Pow10(d - 1) + FracDigits(r10 % b, b, d - 1)

\* (a / b) in fixed point for a >= 0, b > 0.  A divisor too large for the
\* long division's r * 10 is first shortened by one digit, with the dividend.
RECURSIVE DivMag(_, _)
DivMag(a, b) ==
  IF b > 200 * Scale THEN DivMag((a + 5) \div 10, (b + 5) \div 10)
  ELSE (a \div b) * Scale + FracDigits(a % b, b, 6)

DivFix(a, b) == SgnI(a) * SgnI(b) * DivMag(AbsI(a), AbsI(b))

\* Square root of a fixed-point number a > 0 by Newton's iteration.
RECURSIVE SqrtIter(_, _)
SqrtIter(a, x) ==
  LET y == (x + DivFix(a, x)) \div 2
  IN IF y >= x THEN x ELSE SqrtIter(a, y)

SqrtFix(a) == IF a = 0 THEN 0 ELSE SqrtIter(a, IF a > Scale THEN a ELSE Scale)

\* e^f for 0 <= f < 1 by its power series; term is f^(k-1)/(k-1)!.
RECURSIVE ExpSeries(_, _, _)
ExpSeries(f, term, k) ==
  IF term = 0 THEN 0
  ELSE term + ExpSeries(f, (MulFix(term, f) + k \div 2) \div k, k + 1)

EulerE == ExpSeries(Scale, Scale, 1)

\* e^n for an integer n, from e.
RECURSIVE ExpInt(_)
ExpInt(n) ==
  IF n = 0 THEN Scale
  ELSE IF n > 0 THEN MulFix(ExpInt(n - 1), EulerE)
  ELSE DivFix(ExpInt(n + 1), EulerE)

\* e^x for a fixed-point x; anything below e^-16 rounds to zero.
ExpFix(x) ==
  LET n == IF x >= 0 THEN x \div Scale ELSE -((-x + Scale - 1) \div Scale)
      f == x - n * Scale
  IN IF n < -16 THEN 0 ELSE MulFix(ExpInt(n), ExpSeries(f, Scale, 1))

\* atanh(u) = u + u^3/3 + u^5/5 + ... for 0 <= u <= 1/3; pw is u^k.
RECURSIVE AtanhSeries(_, _, _)
AtanhSeries(u, pw, k) ==
  IF pw = 0 THEN 0
  ELSE (pw + k \div 2) \div k + AtanhSeries(u, MulFix(MulFix(pw, u), u), k + 2)

\* ln(m) for 1 <= m <= 2, as 2 atanh((m - 1) / (m + 1)).
LnMant(m) ==
  LET u == DivFix(m - Scale, m + Scale)
  IN 2 * AtanhSeries(u, u, 1)

Ln2 == LnMant(2 * Scale)

\* ln(y) for a fixed-point y > 0: y = 2^n * m with 1 <= m < 2.
RECURSIVE LnFix(_)
LnFix(y) ==
  IF y >= 2 * Scale THEN Ln2 + LnFix(y \div 2)
  ELSE IF y < Scale THEN LnFix(2 * y) - Ln2
  ELSE LnMant(y)

\* ------------------------------------------------------------------------
\* JavaScript numbers: finite values, NaN, +Infinity, -Infinity
\* ------------------------------------------------------------------------
Fin(n) == [k |-> "fin", v |-> n]
NaN == [k |-> "nan", v |-> 0]
PosInf == [k |-> "inf", v |-> 1]
NegInf == [k |-> "inf", v |-> -1]
Inf(s) == [k |-> "inf", v |-> s]

IsNaN(a) == a.k = "nan"
IsFin(a) == a.k = "fin"
IsInf(a) == a.k = "inf"
Sgn(a) == IF a.k = "inf" THEN a.v ELSE SgnI(a.v)
\* the sign used when dividing by or multiplying with a zero: +0
SgnZ(a) == IF Sgn(a) < 0 THEN -1 ELSE 1

\* a < b, a <= b : false as soon as one side is NaN
Lt(a, b) ==
  /\ ~IsNaN(a) /\ ~IsNaN(b)
  /\ \/ IsFin(a) /\ IsFin(b) /\ a.v < b.v
     \/ IsFin(a) /\ IsInf(b) /\ b.v = 1
     \/ IsInf(a) /\ a.v = -1 /\ IsFin(b)
     \/ IsInf(a) /\ IsInf(b) /\ a.v < b.v
Le(a, b) == ~IsNaN(a) /\ ~IsNaN(b) /\ (a = b \/ Lt(a, b))

Neg(a) == IF IsNaN(a) THEN NaN ELSE [a EXCEPT !.v = -a.v]

Add(a, b) ==
  IF IsNaN(a) \/ IsNaN(b) THEN NaN
  ELSE IF IsInf(a) /\ IsInf(b) THEN (IF a.v = b.v THEN a ELSE NaN)
  ELSE IF IsInf(a) THEN a
  ELSE IF IsInf(b) THEN b
  ELSE Fin(a.v + b.v)

Sub(a, b) == Add(a, Neg(b))

Mul(a, b) ==
  IF IsNaN(a) \/ IsNaN(b) THEN NaN
  ELSE IF IsInf(a) \/ IsInf(b)
       THEN (IF Sgn(a) = 0 \/ Sgn(b) = 0 THEN NaN ELSE Inf(Sgn(a) * Sgn(b)))
  ELSE Fin(MulFix(a.v, b.v))

Div(a, b) ==
  IF IsNaN(a) \/ IsNaN(b) THEN NaN
  ELSE IF IsInf(a) THEN (IF IsInf(b) THEN NaN ELSE Inf(a.v * SgnZ(b)))
  ELSE IF IsInf(b) THEN Fin(0)
  ELSE IF b.v = 0 THEN (IF a.v = 0 THEN NaN ELSE Inf(Sgn(a)))
  ELSE Fin(DivFix(a.v, b.v))

MathAbs(a) == IF IsNaN(a) THEN NaN ELSE [a EXCEPT !.v = AbsI(a.v)]

MathMax(a, b) ==
  IF IsNaN(a) \/ IsNaN(b) THEN NaN ELSE IF Lt(a, b) THEN b ELSE a

MathSqrt(a) ==
  IF IsNaN(a) \/ Sgn(a) < 0 THEN NaN
  ELSE IF IsInf(a) THEN PosInf
  ELSE Fin(SqrtFix(a.v))

MathLog(a) ==
  IF IsNaN(a) \/ Sgn(a) < 0 THEN NaN
  ELSE IF IsInf(a) THEN PosInf
  ELSE IF a.v = 0 THEN NegInf
  ELSE Fin(LnFix(a.v))

MathExp(a) ==
  IF IsNaN(a) THEN NaN
  ELSE IF IsInf(a) THEN (IF a.v = 1 THEN PosInf ELSE Fin(0))
  ELSE Fin(ExpFix(a.v))

\* ------------------------------------------------------------------------
\* src/api/index.js : normalCDF, blackScholesCall
\* ------------------------------------------------------------------------
\* the literals of normalCDF, in units of 10^-9
a1 == 254829592
a2 == -284496736
a3 == 1421413741
a4 == -1453152027
a5 == 1061405429
p == 327591100
\* a literal given in units of 10^-9, as a number
Lit(n) == Fin(SgnI(n) * ((AbsI(n) + Base \div 2) \div Base))

One == Fin(Scale)
Zero == Fin(0)
Half == Fin(Scale \div 2)

normalCDF(x0) ==
  LET sign == IF Lt(x0, Zero) THEN Fin(-Scale) ELSE One
      x == Div(MathAbs(x0), MathSqrt(Fin(2 * Scale)))
      t == Div(One, Add(One, Mul(Lit(p), x)))
      poly == Add(Mul(Add(Mul(Add(Mul(Add(Mul(Lit(a5), t), Lit(a4)), t),
                                  Lit(a3)), t), Lit(a2)), t), Lit(a1))
      y == Sub(One, Mul(Mul(poly, t), MathExp(Neg(Mul(x, x)))))
  IN Mul(Half, Add(One, Mul(sign, y)))

\* a formula with the sign of the strike term wrong
blackScholesFormulaPlus(S, K, T, r, sigma) ==
  LET sqrtT == MathSqrt(T)
      d1 == Div(Add(MathLog(Div(S, K)),
                    Mul(Add(r, Mul(Mul(Half, sigma), sigma)), T)),
                Mul(sigma, sqrtT))
      d2 == Sub(d1, Mul(sigma, sqrtT))
      callPrice == Add(Mul(S, normalCDF(d1)),
                       Mul(Mul(K, MathExp(Mul(Neg(r), T))), normalCDF(d2)))
  IN MathMax(callPrice, Zero)

\* lines 27-31: the formula branch, taken when T <= 0 is false
blackScholesFormula(S, K, T, r, sigma) ==
  LET sqrtT == MathSqrt(T)
      d1 == Div(Add(MathLog(Div(S, K)),
                    Mul(Add(r, Mul(Mul(Half, sigma), sigma)), T)),
                Mul(sigma, sqrtT))
      d2 == Sub(d1, Mul(sigma, sqrtT))
      callPrice == Sub(Mul(S, normalCDF(d1)),
                       Mul(Mul(K, MathExp(Mul(Neg(r), T))), normalCDF(d2)))
  IN MathMax(callPrice, Zero)

\* a blackScholesCall whose expiry test is T < 0
blackScholesCallStrictExpiry(S, K, T, r, sigma) ==
  IF Lt(T, Zero) THEN MathMax(Sub(S, K), Zero)
  ELSE blackScholesFormula(S, K, T, r, sigma)

blackScholesCall(S, K, T, r, sigma) ==
  IF Le(T, Zero) THEN MathMax(Sub(S, K), Zero)
  ELSE blackScholesFormula(S, K, T, r, sigma)

\* ------------------------------------------------------------------------
\* Strings (sequences of one-character strings), parseFloat and number-to-string
\* ------------------------------------------------------------------------
DigitChars == <<"0", "1", "2", "3", "4", "5", "6", "7", "8", "9">>
IsDigit(c) == \E i \in 1..10 : DigitChars[i] = c
DigitVal(c) == (CHOOSE i \in 1..10 : DigitChars[i] = c) - 1

\* index of the first character at or after i that is no digit
RECURSIVE DigitsEnd(_, _)
DigitsEnd(str, i) ==
  IF i <= Len(str) /\ IsDigit(str[i]) THEN DigitsEnd(str, i + 1) ELSE i

\* value of the digits str[i..j-1] read as an integer
RECURSIVE IntOf(_, _, _, _)
IntOf(str, i, j, acc) ==
  IF i >= j THEN acc ELSE IntOf(str, i + 1, j, acc * 10 + DigitVal(str[i]))

\* value of the digits str[i..j-1] read as a fraction, in fixed-point units
\* (digits beyond the sixth are below the unit)
RECURSIVE FracOf(_, _, _, _)
FracOf(str, i, j, d) ==
  IF i >= j \/ d = 0 THEN 0
  ELSE DigitVal(str[i]) * Pow10(d - 1) + FracOf(str, i + 1, j, d - 1)

RECURSIVE SkipSpaces(_, _)
SkipSpaces(str, i) ==
  IF i <= Len(str) /\ str[i] = " " THEN SkipSpaces(str, i + 1) ELSE i

StartsWith(str, i, word) ==
  /\ i + Len(word) - 1 <= Len(str)
  /\ \A n \in 1..Len(word) : str[i + n - 1] = word[n]

InfinityWord == <<"I", "n", "f", "i", "n", "i", "t", "y">>

\* parseFloat: leading blanks, an optional sign, then "Infinity" or the longest
\* prefix of digits [. digits]; NaN when there is no such prefix.  (Exponent
\* parts are not modelled; no string of the model has one.)
parseFloat(str) ==
  LET i0 == SkipSpaces(str, 1)
      neg == i0 <= Len(str) /\ str[i0] = "-"
      i1 == IF i0 <= Len(str) /\ str[i0] \in {"-", "+"} THEN i0 + 1 ELSE i0
      i2 == DigitsEnd(str, i1)
      hasDot == i2 <= Len(str) /\ str[i2] = "."
      i3 == IF hasDot THEN DigitsEnd(str, i2 + 1) ELSE i2
      nInt == i2 - i1
      nFrac == IF hasDot THEN i3 - (i2 + 1) ELSE 0
      mag == IntOf(str, i1, i2, 0) * Scale + FracOf(str, i2 + 1, i3, 6)
  IN IF StartsWith(str, i1, InfinityWord) THEN Inf(IF neg THEN -1 ELSE 1)
     ELSE IF nInt + nFrac = 0 THEN NaN
     ELSE Fin(IF neg THEN -mag ELSE mag)

\* decimal digits of a natural number
RECURSIVE IntStr(_)
IntStr(n) ==
  IF n < 10 THEN <<DigitChars[n + 1]>>
  ELSE Append(IntStr(n \div 10), DigitChars[(n % 10) + 1])

\* the d-digit fraction f without its trailing zeros
RECURSIVE FracStr(_, _)
FracStr(f, d) ==
  IF f = 0 THEN <<>>
  ELSE <<DigitChars[(f \div Pow10(d - 1)) + 1]>> \o FracStr(f % Pow10(d - 1), d - 1)

Null == [k |-> "null", v |-> 0]
Undefined == [k |-> "undefined", v |-> 0]

\* String(x) as a template literal `${x}` produces it
NumberToString(x) ==
  IF x = Null THEN <<"n", "u", "l", "l">>
  ELSE IF x = Undefined THEN <<"u", "n", "d", "e", "f", "i", "n", "e", "d">>
  ELSE IF IsNaN(x) THEN <<"N", "a", "N">>
  ELSE IF IsInf(x) THEN (IF x.v < 0 THEN <<"-">> ELSE <<>>) \o InfinityWord
  ELSE LET m == AbsI(x.v)
           f == m % Scale
       IN (IF x.v < 0 THEN <<"-">> ELSE <<>>) \o IntStr(m \div Scale)
          \o (IF f = 0 THEN <<>> ELSE <<".">> \o FracStr(f, 6))

\* JSON.stringify of a number: NaN and the infinities become null
JsonNum(x) == IF IsFin(x) THEN x ELSE Null

\* ------------------------------------------------------------------------
\* src/api/index.js : getContractSize and GET /api/theoretical_apr
\* ------------------------------------------------------------------------
\* n thousandths, as a number
Milli(n) == Fin(n * Base)

\* contractSizes[assetName] || 0.5
getContractSize(assetName) ==
  IF assetName = "UBTC" THEN Milli(50) ELSE Milli(500)

\* the contract size the handler multiplies by: the literal 0.5
HandlerContractSize == Milli(500)

\* a period return that forgets the contract size of the denominator
rawReturnNoSize(premiumTheo, contractSize, spot) == Div(premiumTheo, spot)

\* rawReturn = premiumTheo / (0.5 * spot), 0.5 being the contract size
rawReturnOf(premiumTheo, contractSize, spot) ==
  Div(premiumTheo, Mul(contractSize, spot))

\* A query parameter: absent from the URL, or a string.
Absent == [has |-> FALSE, val |-> <<>>]
Str(chars) == [has |-> TRUE, val |-> chars]
\* !x for a query parameter x: undefined and the empty string are falsy
Falsy(x) == ~x.has \/ x.val = <<>>

\* a parameter check that forgets sigma
MissingParamsNoSigma(q) ==
  Falsy(q.s) \/ Falsy(q.k) \/ Falsy(q.t) \/ Falsy(q.r)

MissingParams(q) ==
  Falsy(q.s) \/ Falsy(q.k) \/ Falsy(q.t) \/ Falsy(q.r) \/ Falsy(q.sigma)

NoInputs ==
  [spot |-> Undefined, strike |-> Undefined, time |-> Undefined,
   rate |-> Undefined, volatility |-> Undefined]

\* a body without any of the fields of the success response
NoBody ==
  [error |-> "", theoreticalApr |-> Undefined, callPrice |-> Undefined,
   premiumTheo |-> Undefined, rawReturn |-> Undefined, inputs |-> NoInputs]

\* What one run of the handler does: the status and JSON body it sends, the
\* calls of blackScholesCall it makes, and its local variables before they
\* are serialised.  Nothing in the try block throws for string parameters,
\* so the 500 branch is never taken.
HandleTheoreticalApr(q) ==
  IF MissingParams(q)
  THEN [status |-> 400,
        body |-> [NoBody EXCEPT !.error = "Missing required query parameters"],
        calls |-> <<>>,
        locals |-> [spot |-> Undefined, strike |-> Undefined, time |-> Undefined,
                    rate |-> Undefined, volatility |-> Undefined,
                    callPrice |-> Undefined, aprTheo |-> Undefined]]
  ELSE
    LET spot == parseFloat(q.s.val)
        strike == parseFloat(q.k.val)
        time == parseFloat(q.t.val)
        rate == parseFloat(q.r.val)
        volatility == parseFloat(q.sigma.val)
        callPrice == blackScholesCall(spot, strike, time, rate, volatility)
        premiumTheo == Mul(callPrice, HandlerContractSize)
        rawReturn == rawReturnOf(premiumTheo, HandlerContractSize, spot)
        aprTheo == Div(rawReturn, time)
    IN [status |-> 200,
        body |-> [error |-> "",
                  theoreticalApr |-> JsonNum(aprTheo),
                  callPrice |-> JsonNum(callPrice),
                  premiumTheo |-> JsonNum(premiumTheo),
                  rawReturn |-> JsonNum(rawReturn),
                  inputs |-> [spot |-> JsonNum(spot),
                              strike |-> JsonNum(strike),
                              time |-> JsonNum(time),
                              rate |-> JsonNum(rate),
                              volatility |-> JsonNum(volatility)]],
        calls |-> <<[S |-> spot, K |-> strike, T |-> time, r |-> rate,
                     sigma |-> volatility]>>,
        locals |-> [spot |-> spot, strike |-> strike, time |-> time,
                    rate |-> rate, volatility |-> volatility,
                    callPrice |-> callPrice, aprTheo |-> aprTheo]]

NoResponse ==
  [status |-> 0, body |-> NoBody, calls |-> <<>>,
   locals |-> [spot |-> Undefined, strike |-> Undefined, time |-> Undefined,
               rate |-> Undefined, volatility |-> Undefined,
               callPrice |-> Undefined, aprTheo |-> Undefined]]

\* ------------------------------------------------------------------------
\* State
\* ------------------------------------------------------------------------
VARIABLES
  bsArgs,        \* the arguments of a direct call of blackScholesCall
  bsResult,      \* its return value (Undefined before the call returns)
  request,       \* the query of the request the API server is handling
  response,      \* what the handler did for it (NoResponse before it ran)
  feed,          \* the quotes GET /api/quotes serves
  pc,            \* where fetchQuotesWithTheoreticalAPR of App.tsx stands
  isInitialLoad, \* its local isInitialLoad
  quotesArray,   \* its local quotesArray
  idx,           \* its loop variable i, as a 1-based index
  acc,           \* its local quotesWithTheoreticalAPR
  slots,         \* the async callbacks of the current batch, one per quote
  quotes,        \* React state: quotes
  loading,       \* React state: loading
  isRefreshing,  \* React state: isRefreshing
  error,         \* React state: error ("" for null)
  loadingTimer,  \* the pending setTimeout(() => setLoading(false), 300)
  market,        \* what the venue and the data providers give one scrape
  scrapeOutcome, \* the outcome of scrapeRyskV12Data for the request
  quotesReply,   \* what GET /api/quotes answered (NoQuotesReply before)
  excessArg,     \* the excessApr of the table row being rendered
  excessAprColor, \* the class computed for it ("" before)
  requested,     \* the quotes (by index) a pricing request was issued for
  exPc,          \* where navigateToAssetAndExtractData stands
  exAttempts,    \* its local attempts
  exData,        \* its local data, the result of the last page.evaluate
  exComplete,    \* per attempt made, whether every strike had a premium
  exStrikeData,  \* its local strikeData, which it returns
  exPage         \* what the asset page showed to the last page.evaluate

bsVars == <<bsArgs, bsResult>>
apiVars == <<request, response>>
appVars == <<feed, pc, isInitialLoad, quotesArray, idx, acc, slots, quotes,
             loading, isRefreshing, error, loadingTimer, requested>>
quotesVars == <<market, scrapeOutcome, quotesReply>>
rowVars == <<excessArg, excessAprColor>>
extractVars ==
  <<exPc, exAttempts, exData, exComplete, exStrikeData, exPage>>
vars == <<bsArgs, bsResult, request, response, feed, pc, isInitialLoad,
          quotesArray, idx, acc, slots, quotes, loading, isRefreshing, error,
          loadingTimer, market, scrapeOutcome, quotesReply, excessArg,
          excessAprColor,
          requested, exPc, exAttempts, exData, exComplete, exStrikeData,
          exPage>>

\* whole numbers, as numbers
N(n) == Fin(n * Scale)

\* ------------------------------------------------------------------------
\* Direct calls of blackScholesCall
\* ------------------------------------------------------------------------
SpotVals == {N(-100), N(0), N(90), N(100), N(110), NaN}
StrikeVals == {N(-90), N(0), N(90), N(100)}
TimeVals == {Milli(-500), N(0), Milli(250), N(1)}
RateVals == {Milli(-200), N(0), Milli(40), N(2)}
SigmaVals == {N(0), Milli(100), Milli(600), NaN}
BsInputs == [S : SpotVals, K : StrikeVals, T : TimeVals, r : RateVals,
             sigma : SigmaVals]

DefaultArgs == [S |-> N(100), K |-> N(90), T |-> N(0), r |-> Milli(40),
                sigma |-> Milli(600)]

\* a caller calls blackScholesCall(S, K, T, r, sigma), which returns
BsCall ==
  /\ bsResult = Undefined
  /\ \E a \in BsInputs :
       /\ bsArgs' = a
       /\ bsResult' = blackScholesCall(a.S, a.K, a.T, a.r, a.sigma)
  /\ UNCHANGED <<apiVars, appVars, quotesVars, rowVars, extractVars>>

\* the caller is done with the value
BsReturn ==
  /\ bsResult # Undefined
  /\ bsArgs' = DefaultArgs
  /\ bsResult' = Undefined
  /\ UNCHANGED <<apiVars, appVars, quotesVars, rowVars, extractVars>>

\* ------------------------------------------------------------------------
\* The API server under arbitrary clients
\* ------------------------------------------------------------------------
SParams == {Absent, Str(<<>>), Str(<<"a", "b", "c">>), Str(<<"0">>), Str(<<"-", "1", "0", "0">>), Str(<<"1", "0", "0">>)}
KParams == {Absent, Str(<<"0">>), Str(<<"-", "9", "0">>), Str(<<"9", "0">>), Str(<<"1", "0", "0">>)}
TParams == {Absent, Str(<<"0">>), Str(<<"-", "1">>), Str(<<"0", ".", "5">>), Str(<<"x">>)}
RParams == {Absent, Str(<<"0">>), Str(<<"0", ".", "0", "4">>)}
SigmaParams == {Absent, Str(<<>>), Str(<<"n", "u", "l", "l">>), Str(<<"a", "b", "c">>), Str(<<"0">>), Str(<<"0", ".", "6">>)}
Queries == [s : SParams, k : KParams, t : TParams, r : RParams,
            sigma : SigmaParams]

DefaultQuery == [s |-> Absent, k |-> Absent, t |-> Absent, r |-> Absent,
                 sigma |-> Absent]

\* a request arrives and the (synchronous) handler answers it
ApiHandle ==
  /\ response = NoResponse
  /\ \E q \in Queries :
       /\ request' = q
       /\ response' = HandleTheoreticalApr(q)
  /\ UNCHANGED <<bsVars, appVars, quotesVars, rowVars, extractVars>>

\* the client has read the response
ApiDone ==
  /\ response # NoResponse
  /\ request' = DefaultQuery
  /\ response' = NoResponse
  /\ UNCHANGED <<bsVars, appVars, quotesVars, rowVars, extractVars>>

\* ------------------------------------------------------------------------
\* The quotes GET /api/quotes serves (src/api/index.js, scrapeRyskV12Data)
\* ------------------------------------------------------------------------
MaxQuotes == 4

Assets == <<"UBTC", "UETH", "WHYPE">>
\* spot price per asset: never null in a served quote (the asset is skipped)
SpotOf(asset) ==
  IF asset = "UBTC" THEN N(1200) ELSE IF asset = "UETH" THEN N(1100) ELSE N(45)
\* volatilities.BTC / volatilities.ETH (positive), null for the other assets
VolOf(asset) ==
  IF asset = "UBTC" THEN Milli(300)
  ELSE IF asset = "UETH" THEN Milli(600) ELSE Null
\* the n-th scraped strike of an asset (ascending) and its quoted APR
StrikeOf(asset, n) ==
  IF asset = "UBTC" THEN N(1200 + 50 * n)
  ELSE IF asset = "UETH" THEN N(1000 + 50 * n) ELSE N(1000 + n)
AprOf(asset, n) == Milli(100 + 50 * n)

\* one entry of quotes.push({...}); riskFreeRate is the literal 0.04
MakeQuote(asset, n, timeToExpiry) ==
  [asset |-> asset, strike |-> StrikeOf(asset, n), apr |-> AprOf(asset, n),
   spotPrice |-> SpotOf(asset), timeToExpiry |-> timeToExpiry,
   riskFreeRate |-> Milli(40), volatility |-> VolOf(asset)]

AssetQuotes(asset, count, timeToExpiry) ==
  [n \in 1..count |-> MakeQuote(asset, n, timeToExpiry)]

\* the quotes array for given numbers of scraped strikes per asset
FeedOf(counts, timeToExpiry) ==
  AssetQuotes(Assets[1], counts[1], timeToExpiry)
    \o AssetQuotes(Assets[2], counts[2], timeToExpiry)
    \o AssetQuotes(Assets[3], counts[3], timeToExpiry)

\* timeToExpiry = (expiryTime - currentTime) / (365 * 24 * 3600): positive
\* before the expiry date, zero at it, negative after it
ExpiryTimes == {Milli(-250), N(0), Milli(250)}

Feeds ==
  {FeedOf(c, T) : c \in {d \in [1..3 -> 0..2] : d[1] + d[2] + d[3] \in 1..MaxQuotes},
                  T \in ExpiryTimes}

\* ------------------------------------------------------------------------
\* src/src/App.tsx : fetchQuotesWithTheoreticalAPR
\* ------------------------------------------------------------------------
batchSize == 3

\* the query part of the URL built by the template literal, as Express
\* parses it (req.query)
QuoteQuery(quote) ==
  [s |-> Str(NumberToString(quote.spotPrice)),
   k |-> Str(NumberToString(quote.strike)),
   t |-> Str(NumberToString(quote.timeToExpiry)),
   r |-> Str(NumberToString(quote.riskFreeRate)),
   sigma |-> Str(NumberToString(quote.volatility))]

IdleSlot ==
  [st |-> "idle", resp |-> NoResponse, theoreticalApr |-> Undefined,
   excessApr |-> Undefined]

\* { ...quote, theoreticalApr, excessApr }
WithApr(quote, theoreticalApr, excessApr) ==
  [asset |-> quote.asset, strike |-> quote.strike, apr |-> quote.apr,
   spotPrice |-> quote.spotPrice, timeToExpiry |-> quote.timeToExpiry,
   riskFreeRate |-> quote.riskFreeRate, volatility |-> quote.volatility,
   theoreticalApr |-> theoreticalApr, excessApr |-> excessApr]

\* a null test that forgets the volatility
SkipsPricingSpotOnly(quote) == quote.spotPrice = Null

\* quote.spotPrice === null || quote.volatility === null
SkipsPricing(quote) == quote.spotPrice = Null \/ quote.volatility = Null

\* an excess with its operands the wrong way round
excessAprReversed(quote, theoreticalApr) == Sub(theoreticalApr, quote.apr)

\* const excessApr = quote.apr - theoreticalApr
excessAprOf(quote, theoreticalApr) == Sub(quote.apr, theoreticalApr)

\* x || 0 for a JSON value x: null, undefined and 0 are falsy
OrZero(x) == IF x = Null \/ x = Undefined \/ x = Zero THEN Zero ELSE x

Min(a, b) == IF a < b THEN a ELSE b
\* a slice that takes every remaining quote at once
BatchAll == idx..Len(quotesArray)

\* the indices of quotesArray.slice(i, i + batchSize)
Batch == idx..Min(idx + batchSize - 1, Len(quotesArray))

\* the finally block
Finally ==
  IF isInitialLoad
  THEN loadingTimer' = TRUE /\ UNCHANGED isRefreshing
  ELSE isRefreshing' = FALSE /\ UNCHANGED loadingTimer

\* The effect's first call after mount, or a click on the Refresh button
\* (disabled while loading or refreshing; not rendered on the error page).
StartFetch ==
  /\ \/ pc = "mounted"
     \/ pc = "idle" /\ ~loading /\ ~isRefreshing /\ error = ""
  /\ isInitialLoad' = (quotes = <<>>)
  /\ IF quotes = <<>>
     THEN loading' = TRUE /\ UNCHANGED isRefreshing
     ELSE isRefreshing' = TRUE /\ UNCHANGED loading
  /\ error' = ""
  /\ pc' = "fetching"
  /\ UNCHANGED <<bsVars, apiVars, quotesVars, rowVars, extractVars,
                 feed, requested, quotesArray, idx, acc, slots, quotes,
                 loadingTimer>>

\* useEffect(..., []): the one call the effect makes, after mount
Mount == pc = "mounted" /\ StartFetch

\* the user clicks the Refresh button
ClickRefresh == pc = "idle" /\ StartFetch

\* fetch('/api/quotes') answers with a non-empty array
QuotesOk ==
  /\ pc = "fetching"
  /\ quotesArray' = feed
  /\ idx' = 1
  /\ acc' = <<>>
  /\ slots' = [j \in 1..Len(feed) |-> IdleSlot]
  /\ pc' = "batch"
  /\ requested' = <<>>
  /\ UNCHANGED <<bsVars, apiVars, quotesVars, rowVars, extractVars,
                 feed, isInitialLoad, quotes, loading,
                 isRefreshing, error, loadingTimer>>

\* fetch('/api/quotes') answers { quotes: [] }
QuotesEmpty ==
  /\ pc = "fetching"
  /\ error' = "No live market data available"
  /\ quotes' = <<>>
  /\ Finally
  /\ pc' = "idle"
  /\ UNCHANGED <<bsVars, apiVars, quotesVars, rowVars, extractVars,
                 feed, requested, isInitialLoad, quotesArray, idx, acc,
                 slots, loading>>

\* fetch('/api/quotes') rejects or answers with a status that is not ok
QuotesFail ==
  /\ pc = "fetching"
  /\ error' = "Failed to fetch live market data"
  /\ quotes' = <<>>
  /\ Finally
  /\ pc' = "idle"
  /\ UNCHANGED <<bsVars, apiVars, quotesVars, rowVars, extractVars,
                 feed, requested, isInitialLoad, quotesArray, idx, acc,
                 slots, loading>>

\* the indices from..Len(quotesArray) in set whose callback calls fetch, in
\* the order batch.map runs the callbacks
RECURSIVE SentFrom(_, _)
SentFrom(from, set) ==
  IF from > Len(quotesArray) THEN <<>>
  ELSE (IF from \in set /\ ~SkipsPricing(quotesArray[from])
        THEN <<from>> ELSE <<>>) \o SentFrom(from + 1, set)
SentIn(set) == SentFrom(1, set)

\* batch.map(async (quote) => ...): every callback runs to its first await
StartBatch ==
  /\ pc = "batch"
  /\ slots' =
       [j \in 1..Len(quotesArray) |->
          IF j \notin Batch THEN slots[j]
          ELSE IF SkipsPricing(quotesArray[j])
               THEN [IdleSlot EXCEPT !.st = "done", !.theoreticalApr = Null,
                                     !.excessApr = Null]
               ELSE [IdleSlot EXCEPT !.st = "sent"]]
  /\ pc' = "awaiting"
  /\ requested' = requested \o SentIn(Batch)
  /\ UNCHANGED <<bsVars, apiVars, quotesVars, rowVars, extractVars,
                 feed, isInitialLoad, quotesArray, idx, acc,
                 quotes, loading, isRefreshing, error, loadingTimer>>

\* the server handles the request of callback j
ServerHandle(j) ==
  /\ pc = "awaiting"
  /\ slots[j].st = "sent"
  /\ \E q \in {QuoteQuery(quotesArray[j])} :
       slots' = [slots EXCEPT ![j].st = "answered",
                              ![j].resp = HandleTheoreticalApr(q)]
  /\ UNCHANGED <<bsVars, apiVars, quotesVars, rowVars, extractVars,
                 feed, requested, pc, isInitialLoad, quotesArray, idx,
                 acc, quotes, loading, isRefreshing, error, loadingTimer>>

\* fetch of callback j rejects (the network fails): its catch block
FetchThrows(j) ==
  /\ pc = "awaiting"
  /\ slots[j].st = "sent"
  /\ slots' = [slots EXCEPT ![j].st = "done", ![j].theoreticalApr = Null,
                            ![j].excessApr = Null]
  /\ UNCHANGED <<bsVars, apiVars, quotesVars, rowVars, extractVars,
                 feed, requested, pc, isInitialLoad, quotesArray, idx,
                 acc, quotes, loading, isRefreshing, error, loadingTimer>>

\* callback j reads the JSON body of its response
ClientReceive(j) ==
  /\ pc = "awaiting"
  /\ slots[j].st = "answered"
  /\ LET theoreticalApr == OrZero(slots[j].resp.body.theoreticalApr)
         excessApr == excessAprOf(quotesArray[j], theoreticalApr)
     IN slots' = [slots EXCEPT ![j].st = "done",
                               ![j].theoreticalApr = theoreticalApr,
                               ![j].excessApr = excessApr]
  /\ UNCHANGED <<bsVars, apiVars, quotesVars, rowVars, extractVars,
                 feed, requested, pc, isInitialLoad, quotesArray, idx,
                 acc, quotes, loading, isRefreshing, error, loadingTimer>>

\* Promise.all resolves: push the batch's results in the batch's order
EndBatch ==
  /\ pc = "awaiting"
  /\ \A j \in Batch : slots[j].st = "done"
  /\ acc' = acc \o [n \in 1..Cardinality(Batch) |->
                      WithApr(quotesArray[idx + n - 1],
                              slots[idx + n - 1].theoreticalApr,
                              slots[idx + n - 1].excessApr)]
  /\ idx' = idx + batchSize
  /\ pc' = IF idx + batchSize <= Len(quotesArray) THEN "batch" ELSE "finalize"
  /\ UNCHANGED <<bsVars, apiVars, quotesVars, rowVars, extractVars,
                 feed, requested, isInitialLoad, quotesArray, slots,
                 quotes, loading, isRefreshing, error, loadingTimer>>

\* setQuotes(quotesWithTheoreticalAPR), then the finally block
Finish ==
  /\ pc = "finalize"
  /\ quotes' = acc
  /\ Finally
  /\ pc' = "idle"
  /\ UNCHANGED <<bsVars, apiVars, quotesVars, rowVars, extractVars,
                 feed, requested, isInitialLoad, quotesArray, idx, acc,
                 slots, loading, error>>

\* setTimeout(() => setLoading(false), 300) fires
HideLoading ==
  /\ loadingTimer
  /\ pc = "idle"
  /\ loading' = FALSE
  /\ loadingTimer' = FALSE
  /\ UNCHANGED <<bsVars, apiVars, quotesVars, rowVars, extractVars,
                 feed, requested, pc, isInitialLoad, quotesArray, idx,
                 acc, slots, quotes, isRefreshing, error>>

\* ------------------------------------------------------------------------
\* src/api/index.js : GET /api/quotes and scrapeRyskV12Data
\* ------------------------------------------------------------------------
\* the assets array of scrapeRyskV12Data, in its order
AssetNames == <<"UBTC", "UETH", "WHYPE", "kHYPE", "UPUMP">>

\* assetMap of getLiveSpotPrices ("" for null)
assetMap(asset) ==
  CASE asset = "UETH" -> "ethereum"
    [] asset = "UBTC" -> "bitcoin"
    [] asset = "WHYPE" -> "hyperliquid"
    [] asset = "kHYPE" -> "hyperliquid"
    [] OTHER -> ""

\* getLiveSpotPrices: cg is the CoinGecko exchange, [ok, usd]; usd maps a
\* coin id to data[coinId].usd, Undefined where the response lacks it.
\* A failed fetch or a status that is not ok is caught: every price null.
getLiveSpotPrices(cg) ==
  [asset \in {AssetNames[i] : i \in DOMAIN AssetNames} |->
     IF ~cg.ok THEN Null
     ELSE IF assetMap(asset) = "" THEN Null
     ELSE IF cg.usd[assetMap(asset)] \notin {Undefined, Null, Zero}
          THEN cg.usd[assetMap(asset)]
          ELSE Null]

\* the outcome of a call that throws
Throws == [k |-> "throws", v |-> 0]

\* getDeribitVolatility, with its throw written as the value Throws:
\* d is the Deribit exchange, [ok, latest], latest the last entry's value
getDeribitVolatility(d) ==
  IF ~d.ok THEN Throws
  ELSE IF d.latest \in {Undefined, Null, Zero} \/ Le(d.latest, Zero)
       THEN Throws
       ELSE Div(d.latest, N(100))

\* getLiveVolatilities: a throw of getDeribitVolatility becomes null
getLiveVolatilities(deribit) ==
  [BTC |-> IF getDeribitVolatility(deribit.BTC) = Throws THEN Null
           ELSE getDeribitVolatility(deribit.BTC),
   ETH |-> IF getDeribitVolatility(deribit.ETH) = Throws THEN Null
           ELSE getDeribitVolatility(deribit.ETH)]

\* the volatility the assets array gives an asset
AssetVolatility(asset, volatilities) ==
  CASE asset = "UBTC" -> volatilities.BTC
    [] asset = "UETH" -> volatilities.ETH
    [] OTHER -> Null

\* a calculatePremiumFromAPR that forgets the contract size
calculatePremiumNoSize(apr, spotPrice, timeToExpiry, assetName) ==
  Mul(Mul(apr, spotPrice), timeToExpiry)

\* (apr * spotPrice * timeToExpiry) * contractSize
calculatePremiumFromAPR(apr, spotPrice, timeToExpiry, assetName) ==
  Mul(Mul(Mul(apr, spotPrice), timeToExpiry), getContractSize(assetName))

\* the object pushed for one strikeInfo of an asset
PushedQuote(asset, spotPrice, volatility, strikeInfo, timeToExpiry) ==
  [asset |-> asset,
   strike |-> strikeInfo.strikePrice,
   premium |-> IF spotPrice # Null /\ strikeInfo.apr # Null
               THEN calculatePremiumFromAPR(strikeInfo.apr, spotPrice,
                                            timeToExpiry, asset)
               ELSE Null,
   premiumSource |-> "calculated",
   apr |-> strikeInfo.apr,
   spotPrice |-> spotPrice,
   timeToExpiry |-> timeToExpiry,
   riskFreeRate |-> Milli(40),
   volatility |-> volatility]

\* an asset test that forgets the spot price
SkipsAssetNoStrikesOnly(spotPrice, strikeData) == strikeData = <<>>

\* asset.spotPrice === null, or asset.strikeData.length === 0: continue
SkipsAsset(spotPrice, strikeData) == spotPrice = Null \/ strikeData = <<>>

\* the quotes pushed for the assets i..Len(AssetNames), in order
RECURSIVE QuotesFrom(_, _, _, _)
QuotesFrom(i, m, spotPrices, volatilities) ==
  IF i > Len(AssetNames) THEN <<>>
  ELSE LET asset == AssetNames[i]
           strikeData == IF asset \in m.failed THEN <<>> ELSE m.pages[asset]
           mine == IF SkipsAsset(spotPrices[asset], strikeData) THEN <<>>
                   ELSE [n \in DOMAIN strikeData |->
                           PushedQuote(asset, spotPrices[asset],
                                       AssetVolatility(asset, volatilities),
                                       strikeData[n], m.timeToExpiry)]
       IN mine \o QuotesFrom(i + 1, m, spotPrices, volatilities)

\* a scraper that closes the browser only at the end of the try block
ClosesBrowserAtEndOnly(browser, scrapeError) == browser /\ ~scrapeError

\* finally { if (browser) { await browser.close() } }
ClosesBrowser(browser, scrapeError) == browser

\* scrapeRyskV12Data under market m: whether it throws, what it returns,
\* whether it launched the browser and whether it closed it.  m.browser
\* tells whether puppeteer.launch or the first page.goto throws; either
\* is caught as scrapeError and gives [].  The outer catch gives [] too.
scrapeRyskV12Data(m) ==
  LET spotPrices == getLiveSpotPrices(m.coingecko)
      volatilities == getLiveVolatilities(m.deribit)
      browser == m.browser # "launchThrows"
      scrapeError == m.browser \in {"launchThrows", "gotoThrows"}
  IN [threw |-> FALSE,
      value |-> IF scrapeError THEN <<>>
                ELSE QuotesFrom(1, m, spotPrices, volatilities),
      launched |-> browser,
      closed |-> ClosesBrowser(browser, scrapeError)]

NoScrape ==
  [threw |-> FALSE, value |-> <<>>, launched |-> FALSE, closed |-> FALSE]

NoQuotesReply == [status |-> 0, error |-> "", message |-> "", quotes |-> <<>>]

\* the handler of GET /api/quotes
HandleQuotes(m) ==
  LET scraped == scrapeRyskV12Data(m)
  IN IF scraped.threw
     THEN [status |-> 503, error |-> "Live market data unavailable",
           message |->
             "Unable to fetch real market data. No fallback data provided.",
           quotes |-> <<>>]
     ELSE IF Len(scraped.value) = 0
     THEN [status |-> 200, error |-> "",
           message |->
  "No live data available - all assets missing critical market data",
           quotes |-> <<>>]
     ELSE [status |-> 200, error |-> "", message |-> "",
           quotes |-> scraped.value]

\* What one scrape can meet.  failed holds the assets for which
\* navigateToAssetAndExtractData caught an error.  A strikeInfo is what
\* navigateToAssetAndExtractData returns: strikePrice > 1000, apr > 0,
\* premium a number or null, sorted by strikePrice without duplicates.
StrikeA == [strikePrice |-> N(1050), apr |-> Milli(150), premium |-> N(7)]
StrikeB == [strikePrice |-> N(1250), apr |-> Milli(275), premium |-> Null]
PageVals == {<<>>, <<StrikeA>>, <<StrikeA, StrikeB>>}
Pages ==
  {[asset \in {AssetNames[i] : i \in DOMAIN AssetNames} |->
      CASE asset = "UBTC" -> b [] asset = "UETH" -> e [] asset = "WHYPE" -> w
        [] asset = "kHYPE" -> <<>> [] OTHER -> u] :
     b \in PageVals, e \in PageVals, w \in {<<>>, <<StrikeA>>},
     u \in {<<>>, <<StrikeB>>}}
CoinGeckoVals ==
  {[ok |-> FALSE, usd |-> [c \in {"bitcoin", "ethereum", "hyperliquid"} |->
                             Undefined]]}
  \cup {[ok |-> TRUE, usd |-> [c \in {"bitcoin", "ethereum", "hyperliquid"} |->
                                 CASE c = "bitcoin" -> b
                                   [] c = "ethereum" -> e
                                   [] OTHER -> h]] :
          b \in {Undefined, N(0), N(1200)}, e \in {Undefined, N(1100)},
          h \in {Undefined, N(45)}}
DeribitVals ==
  {[BTC |-> b, ETH |-> e] :
     b \in {[ok |-> FALSE, latest |-> Undefined], [ok |-> TRUE, latest |-> N(0)],
            [ok |-> TRUE, latest |-> N(30)]},
     e \in {[ok |-> FALSE, latest |-> Undefined],
            [ok |-> TRUE, latest |-> N(60)]}}
Markets ==
  [coingecko : CoinGeckoVals, deribit : DeribitVals,
   browser : {"ok", "launchThrows", "gotoThrows"},
   failed : {{}, {"UBTC"}}, pages : Pages,
   timeToExpiry : {Milli(-250), Milli(250)}]
DefaultMarket ==
  [coingecko |-> [ok |-> FALSE,
                  usd |-> [c \in {"bitcoin", "ethereum", "hyperliquid"} |->
                             Undefined]],
   deribit |-> [BTC |-> [ok |-> FALSE, latest |-> Undefined],
                ETH |-> [ok |-> FALSE, latest |-> Undefined]],
   browser |-> "launchThrows",
   failed |-> {},
   pages |-> [asset \in {AssetNames[i] : i \in DOMAIN AssetNames} |-> <<>>],
   timeToExpiry |-> Milli(250)]

\* a request for /api/quotes arrives and the handler answers it
QuotesHandle ==
  /\ quotesReply = NoQuotesReply
  /\ \E m \in Markets :
       /\ market' = m
       /\ scrapeOutcome' = scrapeRyskV12Data(m)
       /\ quotesReply' = HandleQuotes(m)
  /\ UNCHANGED <<bsVars, apiVars, appVars, rowVars, extractVars>>

\* the client has read the reply
QuotesDone ==
  /\ quotesReply # NoQuotesReply
  /\ market' = DefaultMarket
  /\ scrapeOutcome' = NoScrape
  /\ quotesReply' = NoQuotesReply
  /\ UNCHANGED <<bsVars, apiVars, appVars, rowVars, extractVars>>

\* ------------------------------------------------------------------------
\* src/src/App.tsx : the colour of a row's excess APR
\* ------------------------------------------------------------------------
getExcessAPRColorClean(value) ==
  IF Lt(Milli(20), value)
  THEN "text-green-700 bg-green-100 dark:text-green-300 dark:bg-green-900"
  ELSE IF Lt(Zero, value)
  THEN "text-green-600 bg-green-50 dark:text-green-400 dark:bg-green-800"
  ELSE IF Lt(Milli(-20), value)
  THEN "text-yellow-700 bg-yellow-100 dark:text-yellow-300 dark:bg-yellow-900"
  ELSE "text-red-700 bg-red-100 dark:text-red-300 dark:bg-red-900"

\* const excessAprColor = quote.excessApr !== null && ... !== undefined ? ...
ExcessAprColorOf(excessApr) ==
  IF excessApr # Null /\ excessApr # Undefined
  THEN getExcessAPRColorClean(excessApr)
  ELSE "text-gray-400 dark:text-gray-500"

\* the values of excessApr a row is rendered for, in thousandths
ExcessVals == {Milli(n) : n \in -60..60} \cup {Null, Undefined}

\* a table row is rendered
RenderRow ==
  /\ excessAprColor = ""
  /\ \E x \in ExcessVals :
       /\ excessArg' = x
       /\ excessAprColor' = ExcessAprColorOf(x)
  /\ UNCHANGED <<bsVars, apiVars, appVars, quotesVars, extractVars>>

\* the next render starts
RowDone ==
  /\ excessAprColor # ""
  /\ excessArg' = Undefined
  /\ excessAprColor' = ""
  /\ UNCHANGED <<bsVars, apiVars, appVars, quotesVars, extractVars>>

\* ------------------------------------------------------------------------
\* src/api/index.js : navigateToAssetAndExtractData
\* ------------------------------------------------------------------------
\* What the asset page shows to one page.evaluate.  lines: per 'APR' line
\* followed by a percentage, the apr, the strikePrice and the premium the
\* loop over the next lines parsed (null where none was found).  prices and
\* aprs: the values of the elements whose text is a price or a percentage.
\* near: whether price and APR elements lie within 200px of each other.
NoPage == [lines |-> <<>>, prices |-> <<>>, aprs |-> <<>>, near |-> FALSE]

maxAttempts == 3

\* !x for a number, null or undefined
Truthy(x) == x \notin {Null, Undefined, Zero, NaN}

\* a test of a parsed line that forgets the strike's lower limit
KeepsLineAnyStrike(c) == Lt(Zero, c.apr) /\ Truthy(c.strikePrice)

\* apr > 0 && strikePrice && strikePrice > 1000
KeepsLine(c) ==
  Lt(Zero, c.apr) /\ Truthy(c.strikePrice) /\ Lt(N(1000), c.strikePrice)

\* the first strategy: the entries pushed for the parsed lines
LineMatches(pg) ==
  LET kept == SelectSeq(pg.lines, KeepsLine)
  IN [i \in DOMAIN kept |->
        [strikePrice |-> kept[i].strikePrice, apr |-> kept[i].apr,
         premium |-> kept[i].premium, source |-> "real_asset_page_lines"]]

\* the second strategy: for every price element above 1000 and every APR
\* element above 0, in that nesting, an entry if the two are near
RECURSIVE ProximityFrom(_, _)
ProximityFrom(pg, k) ==
  IF k > Len(pg.prices) * Len(pg.aprs) THEN <<>>
  ELSE LET price == pg.prices[((k - 1) \div Len(pg.aprs)) + 1]
           apr == pg.aprs[((k - 1) % Len(pg.aprs)) + 1]
       IN (IF Lt(N(1000), price) /\ Lt(Zero, apr) /\ pg.near
           THEN <<[strikePrice |-> price, apr |-> apr, premium |-> Undefined,
                   source |-> "real_proximity_match"]>>
           ELSE <<>>) \o ProximityFrom(pg, k + 1)

\* self.findIndex(t => Math.abs(t.strikePrice - item.strikePrice) < 0.01)
findIndex(self, item) ==
  LET close == {i \in DOMAIN self :
                  Lt(MathAbs(Sub(self[i].strikePrice, item.strikePrice)),
                     Milli(10))}
  IN CHOOSE i \in close : \A k \in close : i <= k

\* results.filter((item, index, self) => index === self.findIndex(...))
RECURSIVE UniqueFrom(_, _)
UniqueFrom(results, index) ==
  IF index > Len(results) THEN <<>>
  ELSE (IF findIndex(results, results[index]) = index
        THEN <<results[index]>> ELSE <<>>) \o UniqueFrom(results, index + 1)

\* a sort that leaves the order as found
SortNot(unique) == unique

\* unique.sort((a, b) => a.strikePrice - b.strikePrice): a stable sort
RECURSIVE InsertByStrike(_, _)
InsertByStrike(sorted, x) ==
  IF sorted = <<>> THEN <<x>>
  ELSE IF Lt(x.strikePrice, Head(sorted).strikePrice) THEN <<x>> \o sorted
  ELSE <<Head(sorted)>> \o InsertByStrike(Tail(sorted), x)
RECURSIVE SortByStrike(_)
SortByStrike(unique) ==
  IF unique = <<>> THEN <<>>
  ELSE InsertByStrike(SortByStrike(SubSeq(unique, 1, Len(unique) - 1)),
                      unique[Len(unique)])

\* the function passed to page.evaluate, applied to the page
pageEvaluate(pg) ==
  LET lineResults == LineMatches(pg)
      results == IF Len(lineResults) = 0 THEN ProximityFrom(pg, 1)
                 ELSE lineResults
  IN SortByStrike(UniqueFrom(results, 1))

\* strikesWithPremiums === totalStrikes
AllHavePremiums(d) ==
  Cardinality({i \in DOMAIN d : d[i].premium \notin {Null, Undefined}})
    = Len(d)

\* a break that ignores the premiums
BreaksOnLastOnly(d, n) == n = maxAttempts - 1

\* strikesWithPremiums === totalStrikes || attempts === maxAttempts - 1
Breaks(d, n) == AllHavePremiums(d) \/ n = maxAttempts - 1

\* the parsed lines, elements and pages one evaluate can meet
LineVals ==
  {[apr |-> Milli(150), strikePrice |-> N(1250), premium |-> N(7)],
   [apr |-> Milli(300), strikePrice |-> N(1250), premium |-> Null],
   [apr |-> Milli(200), strikePrice |-> N(1050), premium |-> Null],
   [apr |-> N(0), strikePrice |-> N(1100), premium |-> N(3)],
   [apr |-> Milli(250), strikePrice |-> N(900), premium |-> N(2)]}
PageLines == UNION {[1..n -> LineVals] : n \in 0..3}
PageSnaps ==
  [lines : PageLines, prices : {<<>>}, aprs : {<<>>}, near : {FALSE}]
    \cup [lines : PageLines,
          prices : {<<N(1300), N(1100), N(1100), N(900)>>},
          aprs : {<<N(0), Milli(200), Milli(300)>>}, near : BOOLEAN]

\* page.goto of the asset page resolves; the waits of lines 219-302 catch
\* their own errors
Navigate ==
  /\ exPc = "start"
  /\ exPc' = "loop"
  /\ exAttempts' = 0
  /\ exData' = <<>>
  /\ exComplete' = <<>>
  /\ exStrikeData' = <<>>
  /\ exPage' = NoPage
  /\ UNCHANGED <<bsVars, apiVars, appVars, quotesVars, rowVars>>

\* page.goto or page.evaluate throws: the catch block of line 508
ExtractThrows ==
  /\ exPc \in {"start", "loop"}
  /\ exPc' = "caught"
  /\ exStrikeData' = <<>>
  /\ UNCHANGED <<bsVars, apiVars, appVars, quotesVars, rowVars, exAttempts,
                 exData, exComplete, exPage>>

\* one pass of the while loop: evaluate, count the premiums, break or retry
Attempt ==
  /\ exPc = "loop"
  /\ exAttempts < maxAttempts
  /\ \E pg \in PageSnaps : \E d \in {pageEvaluate(pg)} :
       /\ exPage' = pg
       /\ exData' = d
       /\ exComplete' = Append(exComplete, AllHavePremiums(d))
       /\ IF Breaks(d, exAttempts)
          THEN exPc' = "break" /\ UNCHANGED exAttempts
          ELSE exPc' = "loop" /\ exAttempts' = exAttempts + 1
  /\ UNCHANGED <<bsVars, apiVars, appVars, quotesVars, rowVars, exStrikeData>>

\* strikeData.push(...data); return strikeData
ExtractReturn ==
  /\ exPc = "break"
  /\ exStrikeData' = exData
  /\ exPc' = "returned"
  /\ UNCHANGED <<bsVars, apiVars, appVars, quotesVars, rowVars, exAttempts,
                 exData, exComplete, exPage>>

\* the caller goes on to the next asset
NextAsset ==
  /\ exPc \in {"returned", "caught"}
  /\ exPc' = "start"
  /\ exAttempts' = 0
  /\ exData' = <<>>
  /\ exComplete' = <<>>
  /\ exStrikeData' = <<>>
  /\ exPage' = NoPage
  /\ UNCHANGED <<bsVars, apiVars, appVars, quotesVars, rowVars>>

\* ------------------------------------------------------------------------
\* Specifications
\* ------------------------------------------------------------------------
AppInit ==
  /\ pc = "mounted"
  /\ isInitialLoad = TRUE
  /\ quotesArray = <<>>
  /\ idx = 1
  /\ acc = <<>>
  /\ slots = <<>>
  /\ quotes = <<>>
  /\ loading = TRUE
  /\ isRefreshing = FALSE
  /\ error = ""
  /\ loadingTimer = FALSE
  /\ requested = <<>>

\* no request for the quotes and no row rendering under way
OtherInit ==
  /\ market = DefaultMarket /\ scrapeOutcome = NoScrape
  /\ quotesReply = NoQuotesReply
  /\ excessArg = Undefined /\ excessAprColor = ""
  /\ exPc = "start" /\ exAttempts = 0 /\ exData = <<>> /\ exComplete = <<>>
  /\ exStrikeData = <<>> /\ exPage = NoPage

\* the dashboard and the API server that answers it
Init ==
  /\ bsArgs = DefaultArgs /\ bsResult = Undefined
  /\ request = DefaultQuery /\ response = NoResponse
  /\ feed \in Feeds
  /\ AppInit
  /\ OtherInit

Next ==
  \/ Mount
  \/ ClickRefresh
  \/ QuotesOk
  \/ QuotesEmpty
  \/ QuotesFail
  \/ StartBatch
  \/ \E j \in DOMAIN slots : ServerHandle(j)
  \/ \E j \in DOMAIN slots : FetchThrows(j)
  \/ \E j \in DOMAIN slots : ClientReceive(j)
  \/ EndBatch
  \/ Finish
  \/ HideLoading

Spec == Init /\ [][Next]_vars

\* the dashboard left alone: every step but the user's click.  Timers fire
\* and requests are answered or fail, so a step that stays possible is taken.
NextAuto ==
  \/ Mount
  \/ QuotesOk
  \/ QuotesEmpty
  \/ QuotesFail
  \/ StartBatch
  \/ \E j \in DOMAIN slots : FetchThrows(j)
  \/ \E j \in DOMAIN slots : ClientReceive(j)
  \/ EndBatch
  \/ Finish
  \/ HideLoading
  \/ \E j \in DOMAIN slots : ServerHandle(j)

SpecAuto == Init /\ [][NextAuto]_vars /\ WF_vars(NextAuto)

\* direct calls of blackScholesCall, over BsInputs
InitBS ==
  /\ bsArgs = DefaultArgs /\ bsResult = Undefined
  /\ request = DefaultQuery /\ response = NoResponse
  /\ feed = <<>>
  /\ AppInit
  /\ OtherInit

NextBS == BsCall \/ BsReturn

SpecBS == InitBS /\ [][NextBS]_vars

\* the API server alone, answering the requests of arbitrary clients
InitApi ==
  /\ bsArgs = DefaultArgs /\ bsResult = Undefined
  /\ request = DefaultQuery /\ response = NoResponse
  /\ feed = <<>>
  /\ AppInit
  /\ OtherInit

NextApi == ApiHandle \/ ApiDone

SpecApi == InitApi /\ [][NextApi]_vars

\* GET /api/quotes alone, over Markets
NextQuotes == QuotesHandle \/ QuotesDone

SpecQuotes == InitApi /\ [][NextQuotes]_vars

\* navigateToAssetAndExtractData alone, over PageSnaps
NextExtract ==
  \/ Navigate
  \/ ExtractThrows
  \/ Attempt
  \/ ExtractReturn
  \/ NextAsset

SpecExtract == InitApi /\ [][NextExtract]_vars

\* the rendering of table rows alone, over ExcessVals
NextRow == RenderRow \/ RowDone

SpecRow == InitApi /\ [][NextRow]_vars

\* ------------------------------------------------------------------------
\* Properties of blackScholesCall (checked under SpecBS)
\* ------------------------------------------------------------------------
Returned == bsResult # Undefined
\* max(S - K, 0) of two finite numbers, computed on the integers
Intrinsic(S, K) == Fin(IF S.v - K.v > 0 THEN S.v - K.v ELSE 0)
\* inputs in the domain of section 3: positive finite spot and strike, finite
\* time and rate, finite non-negative volatility
InDomain(a) ==
  /\ IsFin(a.S) /\ a.S.v > 0
  /\ IsFin(a.K) /\ a.K.v > 0
  /\ IsFin(a.T) /\ IsFin(a.r)
  /\ IsFin(a.sigma) /\ a.sigma.v >= 0

\* C1: for finite spot S and strike K and every T <= 0, blackScholesCall
\* returns exactly max(S - K, 0), whatever the rate and the volatility are
\* (NaN included).
C1_ExpiredReturnsIntrinsic ==
  (Returned /\ IsFin(bsArgs.S) /\ IsFin(bsArgs.K) /\ IsFin(bsArgs.T)
     /\ bsArgs.T.v <= 0)
  => bsResult = Intrinsic(bsArgs.S, bsArgs.K)

\* C1 witness: S = 100, K = 90, T = 0 has returned 10, with a NaN volatility
C1_Witness ==
  /\ bsArgs.S = N(100) /\ bsArgs.K = N(90) /\ bsArgs.T = N(0)
  /\ bsArgs.sigma = NaN
  /\ bsResult = N(10)

\* C7: for volatility = 0 and T > 0 the engine returns the intrinsic value
\* max(S - K, 0) for every spot, strike and rate (it has no failure path, so
\* this is the one policy it could follow), never NaN or another value.
C7_ZeroVolatilityIntrinsic ==
  (Returned /\ InDomain(bsArgs) /\ bsArgs.sigma.v = 0 /\ bsArgs.T.v > 0)
  => bsResult = Intrinsic(bsArgs.S, bsArgs.K)

\* C9: callPrice >= 0 for every input of the domain, on the expired branch
\* and on the formula branch: the returned value is a number >= 0, never NaN.
C9_CallPriceNonNegative ==
  (Returned /\ InDomain(bsArgs)) => Le(Zero, bsResult)

\* ------------------------------------------------------------------------
\* Properties of GET /api/theoretical_apr (checked under SpecApi)
\* ------------------------------------------------------------------------
Answered == response # NoResponse
ParamNames == {"s", "k", "t", "r", "sigma"}
\* a parameter is missing: absent from the query, or empty
IsMissing(x) == x.has = FALSE \/ Len(x.val) = 0
AllPresent == \A f \in ParamNames : ~IsMissing(request[f])
ErrorBody(resp) == resp.body.error # "" /\ resp.body.theoreticalApr = Undefined

\* the parsed parameters other than t are numbers of the domain: positive
\* spot and strike, a finite rate, a positive volatility
OthersInDomain ==
  /\ IsFin(response.locals.spot) /\ response.locals.spot.v > 0
  /\ IsFin(response.locals.strike) /\ response.locals.strike.v > 0
  /\ IsFin(response.locals.rate)
  /\ IsFin(response.locals.volatility) /\ response.locals.volatility.v > 0

\* C2: a request with t <= 0 (zero or negative) never gets a number reported
\* as theoreticalApr: the field is absent or null.
C2_ExpiredAprAbsent ==
  (Answered /\ AllPresent /\ OthersInDomain /\ IsFin(response.locals.time)
     /\ response.locals.time.v <= 0)
  => ~IsFin(response.body.theoreticalApr)

\* C3: a request whose spot or strike is zero or negative is answered with a
\* client error, not with a success response.
C3_NonPositiveRejected ==
  (Answered /\ AllPresent
     /\ IsFin(response.locals.spot) /\ IsFin(response.locals.strike)
     /\ (response.locals.spot.v <= 0 \/ response.locals.strike.v <= 0)
     /\ IsFin(response.locals.time) /\ response.locals.time.v > 0
     /\ IsFin(response.locals.rate)
     /\ IsFin(response.locals.volatility) /\ response.locals.volatility.v > 0)
  => (response.status = 400 /\ ErrorBody(response))

\* C4: a request with any of s, k, t, r, sigma missing is answered with
\* status 400 and an {error} body, and blackScholesCall is not called for it.
C4_MissingParamIs400 ==
  (Answered /\ ~AllPresent)
  => (response.status = 400 /\ ErrorBody(response) /\ response.calls = <<>>)

\* C4 witness: only sigma is missing, and the answer is 400
C4_Witness ==
  /\ Answered
  /\ request.sigma = Absent
  /\ \A f \in ParamNames \ {"sigma"} : ~IsMissing(request[f])
  /\ response.status = 400

\* C5: a request with all five parameters present of which one does not parse
\* as a number is answered with a client error and an {error} body.
C5_UnparseableRejected ==
  (Answered /\ AllPresent
     /\ \E f \in ParamNames : parseFloat(request[f].val) = NaN
     /\ \A g \in ParamNames :
          LET x == parseFloat(request[g].val)
          IN IsNaN(x) \/ (IsFin(x) /\ x.v > 0))
  => (response.status \in 400..499 /\ ErrorBody(response))

\* ------------------------------------------------------------------------
\* Properties of the dashboard with its server (checked under Spec)
\* ------------------------------------------------------------------------
\* C6: a quote whose volatility is null is never priced: no request is
\* handled for it, and neither its callback's result nor the accumulated or
\* stored quote carries a number as theoreticalApr or excessApr.
C6_NullVolatilityNeverPriced ==
  /\ \A j \in DOMAIN slots :
       quotesArray[j].volatility = Null
       => /\ slots[j].resp = NoResponse
          /\ slots[j].st \in {"idle", "done"}
          /\ slots[j].st = "done"
             => slots[j].theoreticalApr = Null /\ slots[j].excessApr = Null
  /\ \A n \in DOMAIN acc :
       acc[n].volatility = Null
       => acc[n].theoreticalApr = Null /\ acc[n].excessApr = Null
  /\ \A n \in DOMAIN quotes :
       quotes[n].volatility = Null
       => quotes[n].theoreticalApr = Null /\ quotes[n].excessApr = Null

\* C6 witness: a quote with a null volatility has been stored
C6_Witness ==
  \E n \in DOMAIN quotes :
    quotes[n].volatility = Null /\ quotes[n].theoreticalApr = Null

\* the theoretical APR of quote j is unavailable to its callback
Unavailable(j) ==
  \/ quotesArray[j].spotPrice = Null
  \/ quotesArray[j].volatility = Null
  \/ /\ slots[j].resp # NoResponse
     /\ \/ slots[j].resp.status # 200
        \/ slots[j].resp.body.theoreticalApr \in {Null, Undefined}

\* C8: when the theoretical APR of a quote is unavailable, the callback's
\* result has theoreticalApr and excessApr null; zero is not substituted.
C8_UnavailableStoredAsNull ==
  \A j \in DOMAIN slots :
    (slots[j].st = "done" /\ Unavailable(j))
    => (slots[j].theoreticalApr = Null /\ slots[j].excessApr = Null)

\* C10: the premium reported for a quote is callPrice times the contract
\* size of the quote's asset, and the period return is that premium divided
\* by (the same contract size times spot).
C10_PremiumUsesAssetContractSize ==
  \A j \in DOMAIN slots :
    (slots[j].resp.status = 200 /\ IsFin(slots[j].resp.body.callPrice))
    => LET size == getContractSize(quotesArray[j].asset)
           premium == Mul(slots[j].resp.body.callPrice, size)
       IN /\ slots[j].resp.body.premiumTheo = premium
          /\ slots[j].resp.body.rawReturn
               = JsonNum(Div(premium, Mul(size, quotesArray[j].spotPrice)))

\* ------------------------------------------------------------------------
\* Contract size, price bounds and monotonicity
\* ------------------------------------------------------------------------
\* positive contract sizes: those of getContractSize and two others
PositiveSizes == {Milli(50), Milli(500), N(1), N(2)}

\* the handler's steps from callPrice to aprTheo, for contract size c
AprWithSize(c) ==
  Div(rawReturnOf(Mul(response.locals.callPrice, c), c, response.locals.spot),
      response.locals.time)

\* equal up to the rounding of the arithmetic (5 units of the last place)
Near(x, y) == IsFin(x) /\ IsFin(y) /\ AbsI(x.v - y.v) <= 5

\* a request priced with finite positive spot and time and a finite price
Priced ==
  /\ Answered /\ response.status = 200
  /\ IsFin(response.locals.callPrice)
  /\ IsFin(response.locals.spot) /\ response.locals.spot.v > 0
  /\ IsFin(response.locals.time) /\ response.locals.time.v > 0

\* C11: theoreticalApr does not depend on the contract size: computed with
\* any two positive contract sizes from the same spot, strike, time > 0, rate
\* and volatility it is the same, and it is the APR the handler reports.
C11_AprIndependentOfContractSize ==
  Priced =>
    \A c1 \in PositiveSizes :
      /\ Near(AprWithSize(c1), response.locals.aprTheo)
      /\ \A c2 \in PositiveSizes : Near(AprWithSize(c1), AprWithSize(c2))

C11_Witness ==
  /\ Priced
  /\ IsFin(response.locals.aprTheo) /\ response.locals.aprTheo.v > 0
  /\ response.body.theoreticalApr = response.locals.aprTheo

\* a call has returned for finite spot > 0, strike > 0, volatility > 0,
\* time to expiry > 0 and a finite rate
PricedByFormula ==
  /\ Returned
  /\ IsFin(bsArgs.S) /\ bsArgs.S.v > 0
  /\ IsFin(bsArgs.K) /\ bsArgs.K.v > 0
  /\ IsFin(bsArgs.sigma) /\ bsArgs.sigma.v > 0
  /\ IsFin(bsArgs.T) /\ bsArgs.T.v > 0
  /\ IsFin(bsArgs.r)

\* C12: for spot > 0, strike > 0, volatility > 0 and time to expiry > 0, at
\* any finite rate, the price blackScholesCall returns is at most the spot.
C12_CallPriceAtMostSpot ==
  PricedByFormula => (IsFin(bsResult) /\ bsResult.v <= bsArgs.S.v)

\* a price above the intrinsic value, at a negative rate
C12_Witness ==
  /\ PricedByFormula
  /\ bsArgs.r.v < 0
  /\ IsFin(bsResult) /\ bsResult.v > bsArgs.S.v - bsArgs.K.v
  /\ bsResult.v > 0 /\ bsResult.v <= bsArgs.S.v

\* a call has returned for finite spot > 0, strike > 0, volatility > 0, a
\* finite rate and a finite time to expiry of either sign
PricedInDomain ==
  /\ Returned
  /\ IsFin(bsArgs.S) /\ bsArgs.S.v > 0
  /\ IsFin(bsArgs.K) /\ bsArgs.K.v > 0
  /\ IsFin(bsArgs.sigma) /\ bsArgs.sigma.v > 0
  /\ IsFin(bsArgs.T) /\ IsFin(bsArgs.r)

\* C13: with spot, strike, rate (negative rates included) and volatility
\* held fixed, the price is non-decreasing in the time to expiry, also from
\* T <= 0 (the intrinsic value) to T > 0 (the formula).
C13_NonDecreasingInTime ==
  PricedInDomain =>
    \A T2 \in TimeVals :
      Le(bsArgs.T, T2) =>
        Le(bsResult,
           blackScholesCall(bsArgs.S, bsArgs.K, T2, bsArgs.r, bsArgs.sigma))

\* ------------------------------------------------------------------------
\* The stored quotes
\* ------------------------------------------------------------------------
\* C15: every stored quote whose theoreticalApr is present has excessApr =
\* apr - theoreticalApr, and excessApr is null exactly when theoreticalApr
\* is null.
C15_ExcessIsAprMinusTheoretical ==
  \A n \in DOMAIN quotes :
    /\ quotes[n].theoreticalApr # Null
         => quotes[n].excessApr = Sub(quotes[n].apr, quotes[n].theoreticalApr)
    /\ quotes[n].excessApr = Null <=> quotes[n].theoreticalApr = Null

\* stored: a quote with a non-zero theoretical APR and one without any
C15_Witness ==
  /\ \E n \in DOMAIN quotes :
        /\ IsFin(quotes[n].theoreticalApr) /\ quotes[n].theoreticalApr.v > 0
        /\ IsFin(quotes[n].excessApr)
        /\ quotes[n].excessApr.v = quotes[n].apr.v - quotes[n].theoreticalApr.v
  /\ \E n \in DOMAIN quotes :
        quotes[n].theoreticalApr = Null /\ quotes[n].excessApr = Null

\* ------------------------------------------------------------------------
\* GET /api/quotes
\* ------------------------------------------------------------------------
QuotesAnswered == quotesReply # NoQuotesReply

\* the scrape of the venue, the spot-price fetch or a volatility fetch fails
MarketDataFailed ==
  \/ market.browser # "ok"
  \/ ~market.coingecko.ok
  \/ ~market.deribit.BTC.ok
  \/ ~market.deribit.ETH.ok

\* C16: when live market data cannot be fetched, GET /api/quotes answers
\* 503 with the error 'Live market data unavailable', not a success.
C16_Unavailable503 ==
  (QuotesAnswered /\ MarketDataFailed)
  => (quotesReply.status = 503
      /\ quotesReply.error = "Live market data unavailable")

\* the price feed has no usable price for the asset
NoSpotPrice(asset) ==
  \/ ~market.coingecko.ok
  \/ assetMap(asset) = ""
  \/ market.coingecko.usd[assetMap(asset)] \in {Undefined, Zero}

C19_AutoRefresh == [](pc = "idle" => <>(pc = "fetching"))

\* the classes of the row colours
GreenClasses ==
  {"text-green-700 bg-green-100 dark:text-green-300 dark:bg-green-900",
   "text-green-600 bg-green-50 dark:text-green-400 dark:bg-green-800"}
YellowClass ==
  "text-yellow-700 bg-yellow-100 dark:text-yellow-300 dark:bg-yellow-900"
RedClass == "text-red-700 bg-red-100 dark:text-red-300 dark:bg-red-900"
GreyClass == "text-gray-400 dark:text-gray-500"

\* C20: a present excess APR within 2 percentage points of zero
\* (|excess| <= 0.02) is shown yellow, one above that band green, one below
\* it red; an absent excess APR gets the grey class.
C20_ColourFollowsLegend ==
  excessAprColor # "" =>
    IF excessArg \in {Null, Undefined} THEN excessAprColor = GreyClass
    ELSE IF AbsI(excessArg.v) <= 20 * Base THEN excessAprColor = YellowClass
    ELSE IF excessArg.v > 0 THEN excessAprColor \in GreenClasses
    ELSE excessAprColor = RedClass

\* ------------------------------------------------------------------------
\* Requests and batches of one run of fetchQuotesWithTheoreticalAPR
\* ------------------------------------------------------------------------
\* how many pricing requests were issued for fetched quote j
RequestsFor(j) == Cardinality({i \in DOMAIN requested : requested[i] = j})

\* both spotPrice and volatility of fetched quote j are non-null
Priceable(j) ==
  quotesArray[j].spotPrice # Null /\ quotesArray[j].volatility # Null

\* C21: in one run over the fetched quotes exactly one theoretical-APR
\* request is issued for each quote whose spotPrice and volatility are both
\* non-null and none for any other quote; none is priced twice or skipped.
C21_OneRequestPerPriceableQuote ==
  /\ \A i \in DOMAIN requested : requested[i] \in DOMAIN quotesArray
  /\ \A j \in DOMAIN quotesArray :
       /\ RequestsFor(j) <= 1
       /\ ~Priceable(j) => RequestsFor(j) = 0
       /\ (pc = "finalize" /\ Priceable(j)) => RequestsFor(j) = 1
       /\ (pc = "finalize" /\ ~Priceable(j))
            => (slots[j].st = "done" /\ slots[j].resp = NoResponse)

\* a run over two batches is complete, with priced and unpriced quotes
C21_Witness ==
  /\ pc = "finalize"
  /\ Len(quotesArray) > batchSize
  /\ \E j \in DOMAIN quotesArray : Priceable(j) /\ RequestsFor(j) = 1
  /\ \E j \in DOMAIN quotesArray : ~Priceable(j) /\ RequestsFor(j) = 0

\* the callbacks whose request is under way
InFlight == {j \in DOMAIN slots : slots[j].st \in {"sent", "answered"}}
\* the batch fetched quote j belongs to, counted from 0
BatchOf(j) == (j - 1) \div 3

\* C22: at most 3 requests are under way at a time; while a request of a
\* batch is under way every callback of the earlier batches is done and
\* none of a later batch has started; and whatever the order in which the
\* responses complete, the final list has the length and the order of the
\* fetched array, entry i being fetched quote i with its own APR result.
C22_BatchesOfThreeInOrder ==
  /\ Cardinality(InFlight) <= 3
  /\ \A j \in InFlight : \A i \in DOMAIN slots :
       /\ BatchOf(i) < BatchOf(j) => slots[i].st = "done"
       /\ BatchOf(i) > BatchOf(j) => slots[i].st = "idle"
  /\ \A j \in DOMAIN slots :
       slots[j].resp # NoResponse /\ slots[j].resp.status = 200
       => slots[j].resp.body.inputs.strike = quotesArray[j].strike
  /\ pc = "finalize" =>
       /\ Len(acc) = Len(quotesArray)
       /\ \A i \in DOMAIN acc :
            acc[i] = WithApr(quotesArray[i], slots[i].theoreticalApr,
                             slots[i].excessApr)
  /\ (pc = "idle" /\ error = "") =>
       /\ Len(quotes) = Len(quotesArray)
       /\ \A i \in DOMAIN quotes :
            /\ quotes[i].asset = quotesArray[i].asset
            /\ quotes[i].strike = quotesArray[i].strike
            /\ quotes[i].theoreticalApr = slots[i].theoreticalApr
            /\ quotes[i].excessApr = slots[i].excessApr

\* a list of two batches is stored, two of its entries with different APRs
C22_Witness ==
  /\ pc = "idle" /\ error = ""
  /\ Len(quotes) > batchSize
  /\ \E i, j \in DOMAIN quotes :
        /\ i < j
        /\ IsFin(quotes[i].theoreticalApr) /\ IsFin(quotes[j].theoreticalApr)
        /\ quotes[i].theoreticalApr # quotes[j].theoreticalApr

\* ------------------------------------------------------------------------
\* C23 (as stated): for every asset the extraction makes between one and
\* three attempts and returns the data of the last attempt made.
C23_AlwaysOneToThreeAttempts ==
  exPc \in {"returned", "caught"} =>
    /\ Len(exComplete) \in 1..maxAttempts
    /\ exStrikeData = exData

\* C23 (amended): while neither the navigation nor an attempt throws, the
\* extraction makes between one and three attempts, every attempt before
\* the last one left some strike without a premium, the last one either
\* left none (also when it found no strike) or is the third, and the data
\* returned is what the last attempt extracted; when the navigation or an
\* attempt throws, the empty list is returned.
C23_ExtractionRetries ==
  /\ Len(exComplete) <= maxAttempts
  /\ \A i \in 1..(Len(exComplete) - 1) : ~exComplete[i]
  /\ Len(exComplete) >= 1 =>
       exComplete[Len(exComplete)] = AllHavePremiums(pageEvaluate(exPage))
  /\ exPc = "loop" =>
       /\ exAttempts = Len(exComplete) /\ exAttempts < maxAttempts
       /\ \A i \in DOMAIN exComplete : ~exComplete[i]
  /\ exPc \in {"break", "returned"} =>
       /\ Len(exComplete) >= 1
       /\ exComplete[Len(exComplete)] \/ Len(exComplete) = maxAttempts
  /\ exPc = "returned" => exStrikeData = pageEvaluate(exPage)
  /\ exPc = "caught" => exStrikeData = <<>>

C23_Witness ==
  /\ exPc = "returned"
  /\ Len(exComplete) = maxAttempts
  /\ ~exComplete[maxAttempts]
  /\ Len(exStrikeData) >= 2

\* an attempt that found no strike ends the extraction at once
C23_WitnessEmpty ==
  exPc = "returned" /\ Len(exComplete) = 1 /\ exStrikeData = <<>>

\* C24: the list one attempt extracts is in strictly ascending order of
\* strikePrice, no two of its entries have strikes less than 0.01 apart, and
\* each entry stands in the unfiltered results at or before every result
\* whose strike is less than 0.01 from its own.
CloseStrikes(a, b) ==
  Lt(MathAbs(Sub(a.strikePrice, b.strikePrice)), Milli(10))
FoundOn(pg) ==
  IF LineMatches(pg) = <<>> THEN ProximityFrom(pg, 1) ELSE LineMatches(pg)
C24_SortedWithoutDuplicates ==
  Len(exComplete) >= 1 =>
    /\ \A i, j \in DOMAIN exData :
         i < j => /\ Lt(exData[i].strikePrice, exData[j].strikePrice)
                  /\ ~CloseStrikes(exData[i], exData[j])
    /\ \A i \in DOMAIN exData : \A k \in DOMAIN FoundOn(exPage) :
         CloseStrikes(FoundOn(exPage)[k], exData[i]) =>
           \E f \in 1..k : FoundOn(exPage)[f] = exData[i]

C24_Witness ==
  /\ Len(exComplete) >= 1
  /\ Len(exData) = 2
  /\ Len(FoundOn(exPage)) = 3
  /\ Lt(FoundOn(exPage)[3].strikePrice, FoundOn(exPage)[1].strikePrice)
  /\ FoundOn(exPage)[1].strikePrice = FoundOn(exPage)[2].strikePrice
  /\ FoundOn(exPage)[1] # FoundOn(exPage)[2]

\* C25: every extracted entry has apr > 0 and strikePrice > 1000, entries
\* of the proximity strategy exist only when no parsed line passed the
\* line strategy's test, and a page none of whose strikes exceeds 1000
\* gives an empty list, which makes the scraper skip the asset.
ListedStrikes(pg) ==
  {pg.lines[i].strikePrice : i \in DOMAIN pg.lines}
    \cup {pg.prices[i] : i \in DOMAIN pg.prices}
C25_OnlyPositiveAprAboveThousand ==
  Len(exComplete) >= 1 =>
    /\ \A i \in DOMAIN exData :
         /\ Lt(Zero, exData[i].apr)
         /\ Lt(N(1000), exData[i].strikePrice)
         /\ exData[i].source = "real_proximity_match" =>
              \A k \in DOMAIN exPage.lines :
                ~(/\ Lt(Zero, exPage.lines[k].apr)
                  /\ Lt(N(1000), exPage.lines[k].strikePrice))
    /\ (\A s \in ListedStrikes(exPage) : Le(s, N(1000))) =>
         /\ exData = <<>>
         /\ \A spot \in SpotVals : SkipsAsset(spot, exData)

C25_Witness ==
  /\ Len(exComplete) >= 1
  /\ exData # <<>>
  /\ exData[1].source = "real_proximity_match"
  /\ exPage.lines # <<>>

C25_WitnessLowStrikes ==
  /\ Len(exComplete) >= 1
  /\ ListedStrikes(exPage) = {N(900)}
  /\ exData = <<>>

C26_WitnessOneAssetFailed ==
  /\ QuotesAnswered
  /\ market.failed = {"UBTC"} /\ market.pages["UBTC"] # <<>>
  /\ scrapeOutcome.value # <<>>
  /\ scrapeOutcome.closed
====
